---- MODULE Spec2Model ----
(***************************************************************************)
(* Product variant tree: the nodes table, the node_paths closure table     *)
(* with its maintenance triggers (database/create_users_table.sql) and     *)
(* Query 4 "available options for a level" (database/queries.sql).         *)
(***************************************************************************)
EXTENDS Integers, FiniteSets, Sequences, TLC

VARIABLES nodes, node_paths, seq, lastDeleted, q, snap, depth3, cols, tc,
          user, loading, auth_token, session, pathname, calls,
          groups, preview, mappingFile,
          app, platform, isDev, backendProcess, startup, mainWindow, timers,
          dialogs,
          props, timeoutId, requests, hints, hintsLoading, error

vars == <<nodes, node_paths, seq, lastDeleted, q, snap, depth3, cols, tc,
          user, loading, auth_token, session, pathname, calls,
          groups, preview, mappingFile,
          app, platform, isDev, backendProcess, startup, mainWindow, timers,
          dialogs,
          props, timeoutId, requests, hints, hintsLoading, error>>

\* the database and the query calls on it
dbVars == <<nodes, node_paths, seq, lastDeleted, q, snap, depth3, cols, tc>>

\* AuthProvider state, localStorage, the router location, requests in flight
authVars == <<user, loading, auth_token, session, pathname, calls>>

\* the mapping tool: the editor's groups, the live preview, the exported file
mapVars == <<groups, preview, mappingFile>>

\* the Electron main process: the app, the backend child process, the
\* promise of startBackend, the window, pending timers, error boxes shown
electronVars == <<app, platform, isDev, backendProcess, startup, mainWindow,
                  timers, dialogs>>

\* a CodeHints component: its props, the debounce timer, the requests in
\* flight and its state
hintVars == <<props, timeoutId, requests, hints, hintsLoading, error>>

\* the state of the applications around the database
appVars == <<authVars, mapVars, electronVars, hintVars>>

\* what the authentication code leaves alone
besideAuth == <<dbVars, mapVars, electronVars, hintVars>>

\* what the mapping tool leaves alone
besideMap == <<dbVars, authVars, electronVars, hintVars>>

\* what the Electron main process leaves alone
besideElectron == <<dbVars, authVars, mapVars, hintVars>>

\* what a CodeHints component leaves alone
besideHints == <<dbVars, authVars, mapVars, electronVars>>

(* ------------------------------ bounds -------------------------------- *)
\* rows ever inserted in a behaviour of Spec (AUTOINCREMENT never reuses ids)
MaxNodes == 4
\* rows inserted by the import in a behaviour of SpecQ
MaxImport == 5
\* deepest selection level stored
MaxLevel == 3
\* number of selections passed to Query 4
MaxSel == 2
\* rows inserted by the import in a behaviour of SpecL
MaxSmall == 3
\* rows ever inserted in a behaviour of SpecF
MaxFull == 3
\* rows inserted by the import in a behaviour of SpecT
MaxTyped == 4
\* requests of the web application in flight at a time
MaxCalls == 2
\* groups, positions and codes the mapping editor holds, counted together,
\* before its add buttons are disabled
MaxSize == 5
\* requests of a CodeHints component in flight at a time
MaxFetches == 2

(* --------------------------- value domains ---------------------------- *)
\* SQL NULL of nodes.parent_id (ids start at 1)
NoParent == 0
\* SQL NULL of nodes.code
NoCode == "NULL"
\* SQL NULL of nodes.pattern
NoPattern == 0
\* codes the callers use; the same code may occur in several branches
Codes == {"a", "b"}
\* string lengths a pattern container may carry
PatternLens == {1}

(* ------------------------- nodes table (rows) -------------------------- *)
Ids == DOMAIN nodes

NodesCheck_CodeOrPattern(parent_id, code, pattern) ==
    \/ code # NoCode
    \/ pattern # NoPattern
    \/ parent_id = NoParent

\* CHECK constraint of the nodes table
NodesCheck(parent_id, code, pattern) ==
    \/ (code # NoCode /\ pattern = NoPattern)
    \/ (code = NoCode /\ pattern # NoPattern)
    \/ parent_id = NoParent

LevelFor_EveryHop(ns, parent_id, code) ==
    IF parent_id = NoParent THEN 0 ELSE ns[parent_id].level + 1

\* level column as the import fills it: 0 for a family, a pattern container
\* keeps its parent's level, a code node is one level below its parent
LevelFor(ns, parent_id, code) ==
    IF parent_id = NoParent THEN 0
    ELSE IF code = NoCode THEN ns[parent_id].level
    ELSE ns[parent_id].level + 1

(* --------------------- walking the parent_id links --------------------- *)
RECURSIVE WalkUp(_, _, _)
\* <<ancestor, hops>> for every proper ancestor met from n up to the root
WalkUp(ns, n, d) ==
    IF ns[n].parent_id = NoParent \/ ns[n].parent_id \notin DOMAIN ns THEN {}
    ELSE {<<ns[n].parent_id, d + 1>>} \cup WalkUp(ns, ns[n].parent_id, d + 1)

AncestorsOf(ns, n) == {w[1] : w \in WalkUp(ns, n, 0)}

\* n and every node below it, by parent links
SubtreeOf(ns, n) == {m \in DOMAIN ns : m = n \/ n \in AncestorsOf(ns, m)}

(* ------------------------- closure maintenance ------------------------- *)
TrgNodeInsert_SameDepth(paths, id, parent_id) ==
    IF parent_id # NoParent
    THEN LET withSelf == paths \cup
                 {[ancestor_id |-> id, descendant_id |-> id, depth |-> 0]}
         IN  withSelf \cup
                 {[ancestor_id |-> p.ancestor_id, descendant_id |-> id,
                   depth |-> p.depth] :
                      p \in {r \in withSelf : r.descendant_id = parent_id}}
    ELSE paths

\* trg_node_insert: AFTER INSERT ON nodes WHEN NEW.parent_id IS NOT NULL
TrgNodeInsert(paths, id, parent_id) ==
    IF parent_id # NoParent
    THEN LET withSelf == paths \cup
                 {[ancestor_id |-> id, descendant_id |-> id, depth |-> 0]}
         IN  withSelf \cup
                 {[ancestor_id |-> p.ancestor_id, descendant_id |-> id,
                   depth |-> p.depth + 1] :
                      p \in {r \in withSelf : r.descendant_id = parent_id}}
    ELSE paths

\* trg_node_delete: BEFORE DELETE ON nodes, for the row OLD.id
TrgNodeDelete(paths, id) ==
    {p \in paths : ~(p.ancestor_id = id \/ p.descendant_id = id)}

RECURSIVE CascadeFrom(_, _)
CascadeFrom(ns, S) ==
    LET kids == {m \in DOMAIN ns : ns[m].parent_id \in S} \ S
    IN  IF kids = {} THEN S ELSE CascadeFrom(ns, S \cup kids)

FkCascadeRows_RowOnly(ns, n) == {n}

FkCascadeRows_ChildrenOnly(ns, n) ==
    {n} \cup {m \in DOMAIN ns : ns[m].parent_id = n}

\* rows removed by DELETE of row n: FOREIGN KEY (parent_id) ... ON DELETE CASCADE
FkCascadeRows(ns, n) == CascadeFrom(ns, {n})

\* node_paths FOREIGN KEYs ON DELETE CASCADE: rows of removed nodes go
FkCascadePaths(paths, removed) ==
    {p \in paths : p.ancestor_id \notin removed /\ p.descendant_id \notin removed}

RECURSIVE FireDeleteTriggers(_, _)
\* trg_node_delete fires once for each removed row
FireDeleteTriggers(paths, removed) ==
    IF removed = {} THEN paths
    ELSE LET id == CHOOSE x \in removed : TRUE
         IN  FireDeleteTriggers(TrgNodeDelete(paths, id), removed \ {id})

(* ------------------------------ queries -------------------------------- *)
\* q: the query call in progress at the caller (its inputs and the rows it
\* returned); the store is not written while a result is being read
NoQuery == [kind |-> "none", target |-> 0, selections |-> {}, last |-> 0,
            forward |-> {}, backward |-> {}, rows |-> {}]

\* inputs :selection_i_code / :selection_i_level
SelectionInputs == [code : Codes, level : 0..MaxLevel]

candidates_AnyRow(ns, target_level) ==
    {id \in DOMAIN ns : ns[id].level = target_level}

\* candidates CTE: WHERE level = :target_level AND code IS NOT NULL
candidates(ns, target_level) ==
    {id \in DOMAIN ns : ns[id].level = target_level /\ ns[id].code # NoCode}

\* selection_ids CTE: JOIN nodes n ON n.code = cs.code AND n.level = cs.level
selection_ids(ns, current_selections) ==
    {[id |-> n, level |-> cs.level] :
        <<n, cs>> \in {x \in (DOMAIN ns) \X current_selections :
                          /\ ns[x[1]].code = x[2].code
                          /\ ns[x[1]].level = x[2].level}}

\* last_selection CTE: ORDER BY level DESC LIMIT 1 returns one of the rows
\* of highest level; which one among equals is not determined by the query
last_selection(sids) ==
    {s \in sids : \A t \in sids : t.level <= s.level}

\* forward_compatible CTE, for the row ls of last_selection (ls = 0: no row)
forward_compatible(ns, paths, target_level, ls) ==
    {c \in candidates(ns, target_level) :
        ls # 0 /\ \E np \in paths :
                     np.ancestor_id = ls /\ np.descendant_id = c}

\* backward_compatible CTE
backward_compatible(ns, paths, target_level, sids) ==
    {c \in candidates(ns, target_level) :
        ~ \E si \in sids :
              /\ si.level < target_level
              /\ ~ \E np \in paths :
                      np.ancestor_id = c /\ np.descendant_id = si.id}

\* final SELECT of Query 4: one row per candidate
Query4Rows(ns, target_level, fc, bc) ==
    {[id |-> c, code |-> ns[c].code, level |-> ns[c].level,
      is_compatible |-> (c \in fc /\ c \in bc)] :
        c \in candidates(ns, target_level)}

\* Query 4 outcome for one choice ls of the last_selection row
Query4Result(ns, paths, target_level, current_selections, ls) ==
    LET sids == selection_ids(ns, current_selections)
        fc == forward_compatible(ns, paths, target_level, ls)
        bc == backward_compatible(ns, paths, target_level, sids)
    IN  [kind |-> "query4", target |-> target_level,
         selections |-> current_selections, last |-> ls,
         forward |-> fc, backward |-> bc,
         rows |-> Query4Rows(ns, target_level, fc, bc)]

\* every outcome Query 4 can return for the given input
Query4Results(ns, paths, target_level, current_selections) ==
    LET sids == selection_ids(ns, current_selections)
        choices == IF sids = {} THEN {0}
                   ELSE {s.id : s \in last_selection(sids)}
    IN  {Query4Result(ns, paths, target_level, current_selections, ls) :
            ls \in choices}

SimplifiedRows_Incompatible(ns, target_level) ==
    {[id |-> c, code |-> ns[c].code, level |-> ns[c].level,
      is_compatible |-> FALSE] :
        c \in {id \in DOMAIN ns : ns[id].level = target_level /\ ns[id].code # NoCode}}

\* SIMPLIFIED VERSION: No Previous Selections
SimplifiedRows(ns, target_level) ==
    {[id |-> c, code |-> ns[c].code, level |-> ns[c].level,
      is_compatible |-> TRUE] :
        c \in {id \in DOMAIN ns : ns[id].level = target_level /\ ns[id].code # NoCode}}

SimplifiedResult(ns, target_level) ==
    [kind |-> "simplified", target |-> target_level, selections |-> {},
     last |-> 0, forward |-> {}, backward |-> {},
     rows |-> SimplifiedRows(ns, target_level)]

\* what the caller gets for (target level, selections): the simplified query
\* when nothing is selected yet, Query 4 otherwise
ResolveResults(ns, paths, target_level, current_selections) ==
    IF current_selections = {}
    THEN {SimplifiedResult(ns, target_level)}
    ELSE Query4Results(ns, paths, target_level, current_selections)

(* ------------------------------ readers -------------------------------- *)
\* snap: what a reader connection has read of the two tables (SELECT * FROM
\* nodes, SELECT * FROM node_paths in one read transaction)
NoSnap == [kind |-> "none", nodes |-> <<>>, node_paths |-> {}]

\* depth3: the Query 3 call in progress at the caller
NoDepth == [kind |-> "none", start_code |-> NoCode, max_depth |-> 0]

\* tc: the typecode call in progress at the caller
NoDecode == [kind |-> "none"]

(* --------------------------- frontend values --------------------------- *)
\* user === null in AuthContext
NoUser == "null"
\* User.role
Roles == {"user", "admin"}
\* localStorage has no 'auth_token'
NoToken == "null"
\* the token the backend issued to a user of that role
Tokens == Roles
\* routes of AppRouter: the login page, the main app, an admin-only page
Paths == {"/login", "/", "/admin"}
\* the page is not loaded yet
NotLoaded == "about:blank"

(* --------------------------- mapping tool values ------------------------ *)
\* code values typed into a position, as their characters: trimmed and not
\* empty; one of them is longer than one character
CodeValues == {<<"A">>, <<"A", "T">>}
\* no mapping.json has been downloaded
NoFile == <<>>

(* ----------------------------- Electron values -------------------------- *)
\* process.platform, once the app runs
Platforms == {"darwin", "win32", "linux"}
NoPlatform == "unknown"
\* what the window loads after the loading screen: the Vite dev server in
\* development, the bundled index.html in production
FrontendPath(dev) == IF dev THEN "http://localhost:5173" ELSE "index.html"

(* ---------------------------- CodeHints values -------------------------- *)
\* nodeId and partialCode as passed by the parent; 0 and "" are absent
NodeIds == {0, 1, 2}
PartialCodes == {"", "A", "AB"}
\* no (nodeId, partialCode): no timer pending, no hints held
NoRequest == <<0, "">>
\* the pairs a request is made for: !nodeId || !partialCode is false
Requestable == {pair \in NodeIds \X PartialCodes : pair[1] # 0 /\ pair[2] # ""}

(* ------------------------------- Init ---------------------------------- *)
Init ==
    /\ nodes = <<>>
    /\ node_paths = {}
    /\ seq = 0
    /\ lastDeleted = {}
    /\ q = NoQuery
    /\ snap = NoSnap
    /\ depth3 = NoDepth
    /\ cols = <<>>
    /\ tc = NoDecode
    /\ user = NoUser
    /\ loading = TRUE
    /\ auth_token = NoToken
    /\ session = {}
    /\ pathname = NotLoaded
    /\ calls = {}
    /\ groups = <<>>
    /\ preview = <<>>
    /\ mappingFile = NoFile
    /\ app = "launching"
    /\ platform = NoPlatform
    /\ isDev = FALSE
    /\ backendProcess = "undefined"
    /\ startup = "none"
    /\ mainWindow = "undefined"
    /\ timers = {}
    /\ dialogs = {}
    /\ props = NoRequest
    /\ timeoutId = NoRequest
    /\ requests = [pair \in Requestable |-> 0]
    /\ hints = NoRequest
    /\ hintsLoading = FALSE
    /\ error = FALSE

(* ------------------------------ actions -------------------------------- *)
\* INSERT INTO nodes (parent_id, level, code, pattern, ...) VALUES (...)
InsertRow(parent_id, code, pattern) ==
    LET id == seq + 1
        level == LevelFor(nodes, parent_id, code)
    IN  /\ parent_id = NoParent \/ parent_id \in Ids
        /\ NodesCheck(parent_id, code, pattern)
        /\ level <= MaxLevel
        /\ seq' = id
        /\ nodes' = [m \in Ids \cup {id} |->
                        IF m = id
                        THEN [parent_id |-> parent_id, level |-> level,
                              code |-> code, pattern |-> pattern]
                        ELSE nodes[m]]
        /\ node_paths' = TrgNodeInsert(node_paths, id, parent_id)
        /\ UNCHANGED <<lastDeleted, q, snap, depth3, tc, appVars>>

InsertNode ==
    /\ seq < MaxNodes
    /\ \E parent_id \in Ids \cup {NoParent}, code \in Codes \cup {NoCode},
          pattern \in PatternLens \cup {NoPattern} :
            InsertRow(parent_id, code, pattern)
    /\ UNCHANGED cols

\* DELETE FROM nodes WHERE id = n
DeleteRow(n) ==
    LET removed == FkCascadeRows(nodes, n)
    IN  /\ nodes' = [m \in Ids \ removed |-> nodes[m]]
        /\ node_paths' = FkCascadePaths(
                            FireDeleteTriggers(node_paths, removed), removed)
        /\ lastDeleted' = SubtreeOf(nodes, n)
        /\ UNCHANGED <<seq, q, snap, depth3, tc, appVars>>

DeleteNode == \E n \in Ids : DeleteRow(n) /\ UNCHANGED cols

Next == InsertNode \/ DeleteNode

Spec == Init /\ [][Next]_vars

(* ---------------- the store as loaded by the import, queried ----------- *)
\* the import walks the nested JSON tree: a row's parent is the row written
\* last or one of its ancestors, or none for the next product family
ImportParents == 
    IF seq = 0 THEN {NoParent}
    ELSE {NoParent, seq} \cup AncestorsOf(nodes, seq)

\* rows the import writes: a family has a code, below it code XOR pattern;
\* max bounds the rows of one behaviour
ImportRow(max) ==
    /\ seq < max
    /\ q.kind = "none"
    /\ \E parent_id \in ImportParents, code \in Codes \cup {NoCode} :
          /\ parent_id = NoParent => code # NoCode
          /\ InsertRow(parent_id, code,
                       IF code = NoCode THEN CHOOSE l \in PatternLens : TRUE
                       ELSE NoPattern)
    /\ UNCHANGED cols

ImportInsert == ImportRow(MaxImport)

\* the import of a small store, for the questions asked of every Query 4 call
ImportSmall == ImportRow(MaxSmall)

\* QUERY 4 (Approach A) with at least one selection parameter
Query4 ==
    /\ Ids # {}
    /\ q.kind = "none"
    /\ \E target_level \in 0..MaxLevel,
          current_selections \in SUBSET SelectionInputs :
          /\ current_selections # {}
          /\ Cardinality(current_selections) <= MaxSel
          /\ q' \in Query4Results(nodes, node_paths, target_level,
                                   current_selections)
    /\ UNCHANGED <<nodes, node_paths, seq, lastDeleted, snap, depth3, cols, tc,
                 appVars>>

\* the simplified query, used while nothing is selected
QueryNoSelections ==
    /\ Ids # {}
    /\ q.kind = "none"
    /\ \E target_level \in 0..MaxLevel :
          q' = SimplifiedResult(nodes, target_level)
    /\ UNCHANGED <<nodes, node_paths, seq, lastDeleted, snap, depth3, cols, tc,
                 appVars>>

\* the caller is done with the rows it was given
DiscardResult ==
    /\ q.kind # "none"
    /\ q' = NoQuery
    /\ UNCHANGED <<nodes, node_paths, seq, lastDeleted, snap, depth3, cols, tc,
                 appVars>>

\* the store as loaded by the import, read with the simplified query only
NextS == ImportInsert \/ QueryNoSelections \/ DiscardResult

SpecS == Init /\ [][NextS]_vars

NextQ == ImportInsert \/ Query4 \/ QueryNoSelections \/ DiscardResult

SpecQ == Init /\ [][NextQ]_vars

\* a small imported store under every query call
NextL == ImportSmall \/ Query4 \/ QueryNoSelections \/ DiscardResult

SpecL == Init /\ [][NextL]_vars

(* --------------- rows with position and product columns ---------------- *)
\* cols: the columns position, full_typecode and is_intermediate_code of the
\* rows, kept where the statements write them
\* values written to nodes.position (character position in the typecode)
Positions == {1, 2}
\* SQL NULL of nodes.full_typecode
NoTypecode == "NULL"
\* values written to nodes.full_typecode
Typecodes == {NoTypecode, "T"}
\* is_intermediate_code BOOLEAN DEFAULT 0: a row is inserted before any of
\* its children, and no trigger or statement of the schema updates the column
DefaultIntermediate == FALSE

\* INSERT INTO nodes (parent_id, level, code, pattern, position,
\* full_typecode) VALUES (...): position is only NOT NULL
InsertFull ==
    /\ seq < MaxFull
    /\ \E parent_id \in Ids \cup {NoParent}, code \in Codes \cup {NoCode},
          pattern \in PatternLens \cup {NoPattern},
          position \in Positions, full_typecode \in Typecodes :
            /\ InsertRow(parent_id, code, pattern)
            /\ cols' = [m \in Ids \cup {seq + 1} |->
                          IF m = seq + 1
                          THEN [position |-> position,
                                full_typecode |-> full_typecode,
                                is_intermediate_code |-> DefaultIntermediate]
                          ELSE cols[m]]

\* DELETE FROM nodes WHERE id = n, the rows losing all their columns
DeleteFull ==
    \E n \in Ids :
        /\ DeleteRow(n)
        /\ cols' = [m \in Ids \ FkCascadeRows(nodes, n) |-> cols[m]]

NextF == InsertFull \/ DeleteFull

SpecF == Init /\ [][NextF]_vars

(* ------------------ Query 3: maximum depth from a node ----------------- *)
\* MAX over no rows: SQL NULL
NullDepth == -1

\* depth_calc CTE: the rows frontier at depth d, then their children at d + 1
RECURSIVE depth_calc(_, _, _)
depth_calc(ns, frontier, d) ==
    IF frontier = {} THEN {}
    ELSE {[id |-> id, depth |-> d] : id \in frontier} \cup
         depth_calc(ns, {n \in DOMAIN ns : ns[n].parent_id \in frontier}, d + 1)

\* Option A: SELECT MAX(depth) FROM depth_calc, started WHERE code = :start_code
MaxDepth(ns, start_code) ==
    LET rows == depth_calc(ns, {n \in DOMAIN ns : ns[n].code = start_code}, 0)
    IN  IF rows = {} THEN NullDepth
        ELSE CHOOSE d \in {r.depth : r \in rows} :
                 \A r \in rows : r.depth <= d

Query3 ==
    /\ Ids # {}
    /\ depth3.kind = "none"
    /\ \E start_code \in Codes :
          depth3' = [kind |-> "query3", start_code |-> start_code,
                     max_depth |-> MaxDepth(nodes, start_code)]
    /\ UNCHANGED <<nodes, node_paths, seq, lastDeleted, q, snap, cols, tc,
                 appVars>>

\* Option B: SELECT MAX(depth) FROM node_paths WHERE ancestor_id =
\* (SELECT id FROM nodes WHERE code = :start_code LIMIT 1), for the row
\* start that the subquery picked (none: the comparison with NULL selects
\* no row)
MaxDepthClosure(paths, start) ==
    LET rows == {np \in paths : start # {} /\ np.ancestor_id \in start}
    IN  IF rows = {} THEN NullDepth
        ELSE CHOOSE d \in {np.depth : np \in rows} :
                 \A np \in rows : np.depth <= d

\* LIMIT 1 without ORDER BY: any one of the rows with the code
Limit1(rows) == IF rows = {} THEN {{}} ELSE {{n} : n \in rows}

Query3Closure ==
    /\ Ids # {}
    /\ depth3.kind = "none"
    /\ \E start_code \in Codes :
       \E start \in Limit1({n \in Ids : nodes[n].code = start_code}) :
          depth3' = [kind |-> "query3b", start_code |-> start_code,
                     max_depth |-> MaxDepthClosure(node_paths, start)]
    /\ UNCHANGED <<nodes, node_paths, seq, lastDeleted, q, snap, cols, tc,
                 appVars>>

\* the caller is done with the depth it was given
DiscardDepth ==
    /\ depth3.kind # "none"
    /\ depth3' = NoDepth
    /\ UNCHANGED <<nodes, node_paths, seq, lastDeleted, q, snap, cols, tc,
                 appVars>>

\* the import does not run while a depth is being read
ImportForDepth == depth3.kind = "none" /\ ImportInsert

NextD == ImportForDepth \/ Query3 \/ Query3Closure \/ DiscardDepth

SpecD == Init /\ [][NextD]_vars

(* --------------------- typecode assembler / decoder -------------------- *)
\* codes of the typecode store: one is a prefix of the other
TypedCodes == {"a", "aa"}

\* the characters of a code
Chars(code) == IF code = "aa" THEN <<"a", "a">> ELSE <<code>>

\* the selectable nodes directly below n, pattern containers passed through
RECURSIVE OptionsBelow(_, _)
OptionsBelow(ns, n) ==
    LET kids == {m \in DOMAIN ns : ns[m].parent_id = n}
    IN  {m \in kids : ns[m].code # NoCode} \cup
        UNION {OptionsBelow(ns, g) : g \in {m \in kids : ns[m].code = NoCode}}

\* assemble: the codes of the path in root-to-leaf order, grouping nodes
\* skipped
RECURSIVE assemble(_, _)
assemble(ns, path) ==
    IF path = <<>> THEN <<>>
    ELSE (IF ns[Head(path)].code = NoCode THEN <<>>
          ELSE Chars(ns[Head(path)].code)) \o assemble(ns, Tail(path))

\* position of a row below parent_id: one past the codes above it
RECURSIVE PositionBelow(_, _)
PositionBelow(ns, parent_id) ==
    IF parent_id = NoParent THEN 1
    ELSE PositionBelow(ns, ns[parent_id].parent_id) +
         (IF ns[parent_id].code = NoCode THEN 0
          ELSE Len(Chars(ns[parent_id].code)))

\* the code of node c stands in string s at offset off, where c's position is
MatchesAt(ns, cs, s, off, c) ==
    LET w == Chars(ns[c].code)
    IN  /\ cs[c].position = off + 1
        /\ off + Len(w) <= Len(s)
        /\ SubSeq(s, off + 1, off + Len(w)) = w

\* a node at which a typecode may end: it has a full_typecode or no children
IsCompleteProduct(ns, cs, n) ==
    \/ cs[n].full_typecode # NoTypecode
    \/ ~ \E m \in DOMAIN ns : ns[m].parent_id = n

RECURSIVE Resolve_NoBacktrack(_, _, _, _, _)
Resolve_NoBacktrack(ns, cs, s, off, n) ==
    IF off = Len(s) THEN {<<>>}
    ELSE LET m == {c \in OptionsBelow(ns, n) : MatchesAt(ns, cs, s, off, c)}
             longest == {c \in m : \A d \in m :
                            Len(Chars(ns[d].code)) <= Len(Chars(ns[c].code))}
         IN  UNION {{<<c>> \o p :
                       p \in Resolve_NoBacktrack(ns, cs, s,
                                 off + Len(Chars(ns[c].code)), c)} :
                    c \in longest}

\* decode below node n from offset off: every child whose code stands at
\* the offset is tried, the longest code first, and a shorter one only when
\* no longer one lets the rest of the string resolve; the result is the set
\* of paths the decoder may return (siblings of equal code: either of them)
RECURSIVE Resolve(_, _, _, _, _)
Resolve(ns, cs, s, off, n) ==
    IF off = Len(s) THEN {<<>>}
    ELSE LET m == {c \in OptionsBelow(ns, n) : MatchesAt(ns, cs, s, off, c)}
             ok == {c \in m :
                      Resolve(ns, cs, s, off + Len(Chars(ns[c].code)), c) # {}}
             longest == {c \in ok : \A d \in ok :
                            Len(Chars(ns[d].code)) <= Len(Chars(ns[c].code))}
         IN  UNION {{<<c>> \o p :
                       p \in Resolve(ns, cs, s,
                                 off + Len(Chars(ns[c].code)), c)} :
                    c \in longest}

\* decode(typecodeString, familyRootId)
decode(ns, cs, s, root) ==
    LET found == IF MatchesAt(ns, cs, s, 0, root)
                 THEN Resolve(ns, cs, s, Len(Chars(ns[root].code)), root)
                 ELSE {}
    IN  IF found = {}
        THEN {[kind |-> "DecodeError", path |-> <<>>, isComplete |-> FALSE]}
        ELSE {[kind |-> "decoded", path |-> <<root>> \o p,
               isComplete |-> IsCompleteProduct(ns, cs,
                                 (<<root>> \o p)[Len(p) + 1])] : p \in found}

\* selection paths from n downward: n, then option after option
RECURSIVE SelectionPaths(_, _)
SelectionPaths(ns, n) ==
    {<<n>>} \cup
    UNION {{<<n>> \o p : p \in SelectionPaths(ns, c)} :
              c \in OptionsBelow(ns, n)}

\* complete selection paths of the family with root f
CompletePaths(ns, cs, f) ==
    {p \in SelectionPaths(ns, f) : IsCompleteProduct(ns, cs, p[Len(p)])}

\* rows the import writes into the typecode store: position follows from
\* the codes above the row, full_typecode is there or not
ImportTyped ==
    /\ seq < MaxTyped
    /\ tc.kind = "none"
    /\ \E parent_id \in ImportParents, code \in TypedCodes \cup {NoCode},
          full_typecode \in Typecodes :
          /\ parent_id = NoParent => code # NoCode
          /\ code = NoCode => full_typecode = NoTypecode
          /\ InsertRow(parent_id, code,
                       IF code = NoCode THEN CHOOSE l \in PatternLens : TRUE
                       ELSE NoPattern)
          /\ cols' = [m \in Ids \cup {seq + 1} |->
                        IF m = seq + 1
                        THEN [position |-> PositionBelow(nodes, parent_id),
                              full_typecode |-> full_typecode,
                              is_intermediate_code |-> DefaultIntermediate]
                        ELSE cols[m]]

\* a complete path is assembled and the string decoded again
AssembleDecode ==
    /\ tc.kind = "none"
    /\ \E f \in {n \in Ids : nodes[n].parent_id = NoParent} :
          \E path \in CompletePaths(nodes, cols, f) :
             tc' \in {[kind |-> d.kind, family |-> f, path |-> path,
                        string |-> assemble(nodes, path),
                        decoded |-> d.path, isComplete |-> d.isComplete] :
                          d \in decode(nodes, cols, assemble(nodes, path), f)}
    /\ UNCHANGED <<nodes, node_paths, seq, lastDeleted, q, snap, depth3, cols,
                 appVars>>

\* the caller is done with the decoded path
DiscardDecode ==
    /\ tc.kind # "none"
    /\ tc' = NoDecode
    /\ UNCHANGED <<nodes, node_paths, seq, lastDeleted, q, snap, depth3, cols,
                 appVars>>

NextT == ImportTyped \/ AssembleDecode \/ DiscardDecode

SpecT == Init /\ [][NextT]_vars

(* ------------- the store written and read on two connections ----------- *)
\* a reader reads both tables in one read transaction. A statement and the
\* triggers it fires commit together, so the reader sees the tables as they
\* are between two statements of the writer
BeginRead ==
    /\ snap.kind = "none"
    /\ snap' = [kind |-> "read", nodes |-> nodes, node_paths |-> node_paths]
    /\ UNCHANGED <<nodes, node_paths, seq, lastDeleted, q, depth3, cols, tc,
                 appVars>>

EndRead ==
    /\ snap.kind = "read"
    /\ snap' = NoSnap
    /\ UNCHANGED <<nodes, node_paths, seq, lastDeleted, q, depth3, cols, tc,
                 appVars>>

\* the writer commits while no reader holds the tables
WriterInsert == snap.kind = "none" /\ InsertNode

WriterDelete == snap.kind = "none" /\ DeleteNode

NextC == WriterInsert \/ WriterDelete \/ BeginRead \/ EndRead

SpecC == Init /\ [][NextC]_vars

(* ------------------- the web application: authentication --------------- *)
\* routes wrapped in <ProtectedRoute requireAdmin={true}>
RequireAdmin(path) == path = "/admin"

ProtectedRoute_NoRoleCheck(u, l, requireAdmin) ==
    IF l THEN "Loading"
    ELSE IF u = NoUser THEN "Navigate /login"
    ELSE "children"

\* what ProtectedRoute returns for the auth state (u, l)
ProtectedRoute(u, l, requireAdmin) ==
    IF l THEN "Loading"
    ELSE IF u = NoUser THEN "Navigate /login"
    ELSE IF requireAdmin /\ u # "admin" THEN "403"
    ELSE "children"

\* the element AppRouter shows at the current location
Rendered ==
    IF pathname = NotLoaded THEN "nothing"
    ELSE IF pathname = "/login" THEN "LoginPage"
    ELSE ProtectedRoute(user, loading, RequireAdmin(pathname))

\* a request in flight: fetchApi read the token when the call started
Call(op, role) == [op |-> op, token |-> auth_token, role |-> role]

\* response.ok for a request carrying token t (anything else here is 401)
Ok(t) == t \in session

\* the page is loaded or reloaded: AuthProvider mounts with user null and
\* loading true and starts initAuth; the first load finds whatever an
\* earlier visit left in localStorage
PageLoad ==
    /\ \E p \in Paths : pathname' = p
    /\ IF pathname = NotLoaded
       THEN \E t \in Tokens \cup {NoToken}, valid \in SUBSET Tokens :
               /\ auth_token' = t
               /\ session' = valid
               /\ calls' = {[op |-> "initAuth", token |-> t, role |-> NoUser]}
       ELSE /\ UNCHANGED <<auth_token, session>>
            /\ calls' = {Call("initAuth", NoUser)}
    /\ user' = NoUser
    /\ loading' = TRUE
    /\ UNCHANGED besideAuth

\* initAuth: getCurrentUser() returned or threw; finally setLoading(false)
InitAuthReturn ==
    \E c \in calls :
        /\ c.op = "initAuth"
        /\ calls' = calls \ {c}
        /\ IF Ok(c.token)
           THEN user' = c.token /\ UNCHANGED auth_token
           ELSE user' = NoUser /\ auth_token' = NoToken
        /\ loading' = FALSE
        /\ UNCHANGED <<session, pathname, besideAuth>>

\* LoginPage handleSubmit -> login(): setLoading(true), POST /auth/login
LoginSubmit ==
    /\ pathname = "/login"
    /\ Cardinality(calls) < MaxCalls
    /\ ~ \E c \in calls : c.op \in {"login", "loginMe"}
    /\ \E role \in Roles : calls' = calls \cup {Call("login", role)}
    /\ loading' = TRUE
    /\ UNCHANGED <<user, auth_token, session, pathname, besideAuth>>

\* POST /auth/login answered: setAuthToken and getCurrentUser(), or the
\* credentials were refused (401: removeAuthToken, login throws)
LoginReturn ==
    \E c \in calls, accepted \in BOOLEAN :
        /\ c.op = "login"
        /\ IF accepted
           THEN /\ auth_token' = c.role
                /\ session' = session \cup {c.role}
                /\ calls' = (calls \ {c}) \cup
                               {[op |-> "loginMe", token |-> c.role,
                                 role |-> c.role]}
                /\ UNCHANGED loading
           ELSE /\ auth_token' = NoToken
                /\ calls' = calls \ {c}
                /\ loading' = FALSE
                /\ UNCHANGED session
        /\ UNCHANGED <<user, pathname, besideAuth>>

\* getCurrentUser() of login() answered: setUser and, back in LoginPage,
\* navigate(from); on 401 login throws and the user is left as it was
LoginMeReturn ==
    \E c \in calls :
        /\ c.op = "loginMe"
        /\ calls' = calls \ {c}
        /\ loading' = FALSE
        /\ IF Ok(c.token)
           THEN /\ user' = c.token
                /\ \E from \in Paths \ {"/login"} : pathname' = from
                /\ UNCHANGED auth_token
           ELSE /\ auth_token' = NoToken
                /\ UNCHANGED <<user, pathname>>
        /\ UNCHANGED <<session, besideAuth>>

\* logout(): POST /auth/logout, finally removeAuthToken, finally setUser(null)
Logout ==
    /\ Rendered = "children"
    /\ Cardinality(calls) < MaxCalls
    /\ calls' = calls \cup {Call("logout", NoUser)}
    /\ UNCHANGED <<user, loading, auth_token, session, pathname, besideAuth>>

LogoutReturn ==
    \E c \in calls :
        /\ c.op = "logout"
        /\ calls' = calls \ {c}
        /\ auth_token' = NoToken
        /\ user' = NoUser
        /\ session' = session \ {c.token}
        /\ UNCHANGED <<loading, pathname, besideAuth>>

\* refreshUser(): getCurrentUser(), setUser of the answer or setUser(null)
RefreshUser ==
    /\ Rendered = "children"
    /\ Cardinality(calls) < MaxCalls
    /\ calls' = calls \cup {Call("refreshUser", NoUser)}
    /\ UNCHANGED <<user, loading, auth_token, session, pathname, besideAuth>>

RefreshUserReturn ==
    \E c \in calls :
        /\ c.op = "refreshUser"
        /\ calls' = calls \ {c}
        /\ IF Ok(c.token)
           THEN user' = c.token /\ UNCHANGED auth_token
           ELSE user' = NoUser /\ auth_token' = NoToken
        /\ UNCHANGED <<loading, session, pathname, besideAuth>>

\* any other call of the API client made by a page (fetchApi)
ApiCall ==
    /\ Rendered = "children"
    /\ Cardinality(calls) < MaxCalls
    /\ calls' = calls \cup {Call("api", NoUser)}
    /\ UNCHANGED <<user, loading, auth_token, session, pathname, besideAuth>>

\* fetchApi: on 401 removeAuthToken() and throw; otherwise the JSON
ApiReturn ==
    \E c \in calls :
        /\ c.op = "api"
        /\ calls' = calls \ {c}
        /\ IF Ok(c.token) THEN UNCHANGED auth_token ELSE auth_token' = NoToken
        /\ UNCHANGED <<user, loading, session, pathname, besideAuth>>

\* the backend stops accepting a token (the session ran out)
SessionExpires ==
    /\ \E t \in session : session' = session \ {t}
    /\ UNCHANGED <<user, loading, auth_token, pathname, calls, besideAuth>>

\* the visitor follows a link or types an address
GoTo ==
    /\ pathname # NotLoaded
    /\ \E p \in Paths : p # pathname /\ pathname' = p
    /\ UNCHANGED <<user, loading, auth_token, session, calls, besideAuth>>

\* <Navigate to="/login" replace /> returned by ProtectedRoute
NavigateToLogin ==
    /\ Rendered = "Navigate /login"
    /\ pathname' = "/login"
    /\ UNCHANGED <<user, loading, auth_token, session, calls, besideAuth>>

NextA ==
    \/ PageLoad \/ InitAuthReturn
    \/ LoginSubmit \/ LoginReturn \/ LoginMeReturn
    \/ Logout \/ LogoutReturn
    \/ RefreshUser \/ RefreshUserReturn
    \/ ApiCall \/ ApiReturn
    \/ SessionExpires \/ GoTo \/ NavigateToLogin

SpecA == Init /\ [][NextA]_vars

(* ------------------- the mapping tool: editor and files ---------------- *)
\* A code is its value; a position is [positionIndex, codes]; a group is
\* [groupNumber, positions].  The ids (`group-${Date.now()}`, ...) only name
\* the element a handler changes, and the clicks are more than a millisecond
\* apart, so the handlers here take the element's place in its list.
RemoveAt(s, i) == SubSeq(s, 1, i - 1) \o SubSeq(s, i + 1, Len(s))

\* [...group.positions].sort((a, b) => a.positionIndex - b.positionIndex):
\* ascending, positions of equal index in their order in the list
RECURSIVE sortedPositions(_)
sortedPositions(positions) ==
    IF positions = <<>> THEN <<>>
    ELSE LET least == CHOOSE i \in 1..Len(positions) :
                        /\ \A j \in 1..Len(positions) :
                             positions[i].positionIndex <= positions[j].positionIndex
                        /\ \A j \in 1..(i - 1) :
                             positions[j].positionIndex # positions[i].positionIndex
         IN  <<positions[least]>> \o sortedPositions(RemoveAt(positions, least))

\* `${group.groupNumber}:${currentTypecodePos}=${code.value}`
Segment(groupNumber, currentTypecodePos, code) ==
    [group |-> groupNumber, pos |-> currentTypecodePos, code |-> code]

NextTypecodePos_ByOne(currentTypecodePos, code) == currentTypecodePos + 1

\* const nextTypecodePos = currentTypecodePos + code.value.length
NextTypecodePos(currentTypecodePos, code) == currentTypecodePos + Len(code)

\* generateRecursive of generateGroupCombinations; a path joined with ','
\* is the sequence of its segments
RECURSIVE generateRecursive(_, _, _, _, _)
generateRecursive(groupNumber, sorted, positionIndex, currentTypecodePos, path) ==
    IF positionIndex > Len(sorted) THEN <<path>>
    ELSE LET codes == sorted[positionIndex].codes
             results[k \in 0..Len(codes)] ==
                 IF k = 0 THEN <<>>
                 ELSE results[k - 1] \o
                      generateRecursive(groupNumber, sorted, positionIndex + 1,
                          NextTypecodePos(currentTypecodePos, codes[k]),
                          Append(path, Segment(groupNumber, currentTypecodePos,
                                               codes[k])))
         IN  results[Len(codes)]

generateGroupCombinations(group) ==
    IF group.positions = <<>> THEN <<>>
    ELSE generateRecursive(group.groupNumber, sortedPositions(group.positions),
                           1, 1, <<>>)

\* arrays.reduce((acc, curr) => acc.flatMap(a => curr.map(c => [...a, c])),
\* [[]]), each result then joined with ','
RECURSIVE cartesianProduct(_)
cartesianProduct(arrays) ==
    IF arrays = <<>> THEN << <<>> >>
    ELSE LET acc == cartesianProduct(SubSeq(arrays, 1, Len(arrays) - 1))
             curr == arrays[Len(arrays)]
         IN  [k \in 1..(Len(acc) * Len(curr)) |->
                 acc[((k - 1) \div Len(curr)) + 1]
                 \o curr[((k - 1) % Len(curr)) + 1]]

\* the groups whose combinations enter the product
WithPositions(gs) == SelectSeq(gs, LAMBDA g : g.positions # <<>>)

generateCombinationsForPreview(gs) ==
    IF gs = <<>> THEN <<>>
    ELSE LET kept == WithPositions(gs)
             allGroupCombinations ==
                 [i \in 1..Len(kept) |-> generateGroupCombinations(kept[i])]
         IN  IF allGroupCombinations = <<>> THEN <<>>
             ELSE cartesianProduct(allGroupCombinations)

RECURSIVE calculateRecursive(_, _, _)
calculateRecursive(sorted, positionIndex, currentLength) ==
    IF positionIndex > Len(sorted) THEN {currentLength}
    ELSE UNION {calculateRecursive(sorted, positionIndex + 1,
                                   currentLength + Len(sorted[positionIndex].codes[k])) :
                k \in 1..Len(sorted[positionIndex].codes)}

calculateGroupLengths(group) ==
    IF group.positions = <<>> THEN {}
    ELSE calculateRecursive(sortedPositions(group.positions), 1, 0)

\* "1:2|3|4,2:4|5" as the list of [group, lengths]
generatePattern(gs) ==
    LET kept == SelectSeq(gs, LAMBDA g : calculateGroupLengths(g) # {})
    IN  [i \in 1..Len(kept) |->
            [group |-> kept[i].groupNumber,
             lengths |-> calculateGroupLengths(kept[i])]]

\* positionMap, a Map in insertion order, as the list of its entries; the
\* key "group:position:end_position" is the entry's first three fields
PositionMapAdd(positionMap, groupNumber, position, end_position, code) ==
    IF \E k \in 1..Len(positionMap) :
          /\ positionMap[k].group = groupNumber
          /\ positionMap[k].position = position
          /\ positionMap[k].end_position = end_position
    THEN [k \in 1..Len(positionMap) |->
             IF /\ positionMap[k].group = groupNumber
                /\ positionMap[k].position = position
                /\ positionMap[k].end_position = end_position
                /\ \A c \in 1..Len(positionMap[k].codes) :
                      positionMap[k].codes[c] # code
             THEN [positionMap[k] EXCEPT !.codes = Append(@, code)]
             ELSE positionMap[k]]
    ELSE Append(positionMap, [group |-> groupNumber, position |-> position,
                              end_position |-> end_position, codes |-> <<code>>])

RECURSIVE collectCodePositions(_, _, _, _, _)
collectCodePositions(positionMap, groupNumber, sorted, posIndex, currentTypecodePos) ==
    IF posIndex > Len(sorted) THEN positionMap
    ELSE LET codes == sorted[posIndex].codes
             after[k \in 0..Len(codes)] ==
                 IF k = 0 THEN positionMap
                 ELSE collectCodePositions(
                          PositionMapAdd(after[k - 1], groupNumber,
                              currentTypecodePos,
                              currentTypecodePos + Len(codes[k]) - 1, codes[k]),
                          groupNumber, sorted, posIndex + 1,
                          currentTypecodePos + Len(codes[k]))
         IN  after[Len(codes)]

\* for (const group of state.groups) { ... collectCodePositions(0, 1) }
RECURSIVE groupMappings(_)
groupMappings(gs) ==
    IF gs = <<>> THEN <<>>
    ELSE LET group == gs[Len(gs)]
         IN  collectCodePositions(groupMappings(SubSeq(gs, 1, Len(gs) - 1)),
                 group.groupNumber, sortedPositions(group.positions), 1, 1)

\* the three parts of mapping.json that depend on the groups' codes
convertToMappingJSON(gs) ==
    LET groupsWithCodes ==
            SelectSeq(gs, LAMBDA g : \E i \in 1..Len(g.positions) :
                                        g.positions[i].codes # <<>>)
    IN  [group_position |-> generateCombinationsForPreview(groupsWithCodes),
         pattern |-> generatePattern(groupsWithCodes),
         group_mappings |-> groupMappings(gs)]

\* CHUNK 4: one position for every "position:end_position" key of the
\* group's mappings, in the order the keys first occur
RECURSIVE reconstructPositions(_)
reconstructPositions(mappings) ==
    IF mappings = <<>> THEN <<>>
    ELSE LET before == reconstructPositions(SubSeq(mappings, 1, Len(mappings) - 1))
             mapping == mappings[Len(mappings)]
             posKey == <<mapping.position, mapping.end_position>>
         IN  IF \E k \in 1..Len(before) : before[k].posKey = posKey
             THEN [k \in 1..Len(before) |->
                      IF before[k].posKey = posKey
                      THEN [before[k] EXCEPT !.codes = @ \o mapping.codes]
                      ELSE before[k]]
             ELSE Append(before, [posKey |-> posKey, codes |-> mapping.codes])

\* Array.from(groupsMap.values()).sort((a, b) => a.groupNumber - b.groupNumber)
RECURSIVE ascending(_)
ascending(numbers) ==
    IF numbers = {} THEN <<>>
    ELSE LET least == CHOOSE n \in numbers : \A m \in numbers : n <= m
         IN  <<least>> \o ascending(numbers \ {least})

convertFromMappingJSON(json) ==
    LET groupNums == ascending({json.group_mappings[k].group :
                                   k \in 1..Len(json.group_mappings)})
        positionsOf(groupNum) ==
            LET codesMap == reconstructPositions(
                    SelectSeq(json.group_mappings, LAMBDA m : m.group = groupNum))
            IN  [i \in 1..Len(codesMap) |->
                    [positionIndex |-> i - 1, codes |-> codesMap[i].codes]]
    IN  [i \in 1..Len(groupNums) |->
            [groupNumber |-> groupNums[i], positions |-> positionsOf(groupNums[i])]]

RECURSIVE Sum(_)
Sum(numbers) == IF numbers = <<>> THEN 0 ELSE numbers[1] + Sum(Tail(numbers))
\* groups, positions and codes the editor holds
Size(gs) ==
    Len(gs)
    + Sum([i \in 1..Len(gs) |-> Len(gs[i].positions)])
    + Sum([i \in 1..Len(gs) |->
            Sum([p \in 1..Len(gs[i].positions) |-> Len(gs[i].positions[p].codes)])])

\* setState, then the render: LivePreview shows the combinations of the groups
SetGroups(gs) ==
    /\ groups' = gs
    /\ preview' = generateCombinationsForPreview(gs)

addGroup ==
    /\ mappingFile = NoFile
    /\ Size(groups) < MaxSize
    /\ SetGroups(Append(groups, [groupNumber |-> Len(groups) + 1,
                                 positions |-> <<>>]))
    /\ UNCHANGED <<mappingFile, besideMap>>

deleteGroup ==
    /\ mappingFile = NoFile
    /\ \E i \in 1..Len(groups) : SetGroups(RemoveAt(groups, i))
    /\ UNCHANGED <<mappingFile, besideMap>>

\* updateGroup(group.id, updatedGroup) with the group the GroupEditor built
updateGroup(i, positions) ==
    SetGroups([groups EXCEPT ![i].positions = positions])

addPosition ==
    /\ mappingFile = NoFile
    /\ Size(groups) < MaxSize
    /\ \E i \in 1..Len(groups) :
          updateGroup(i, Append(groups[i].positions,
                                [positionIndex |-> Len(groups[i].positions),
                                 codes |-> <<>>]))
    /\ UNCHANGED <<mappingFile, besideMap>>

deletePosition ==
    /\ mappingFile = NoFile
    /\ \E i \in 1..Len(groups) : \E p \in 1..Len(groups[i].positions) :
          updateGroup(i, RemoveAt(groups[i].positions, p))
    /\ UNCHANGED <<mappingFile, besideMap>>

addCode ==
    /\ mappingFile = NoFile
    /\ Size(groups) < MaxSize
    /\ \E i \in 1..Len(groups) : \E p \in 1..Len(groups[i].positions) :
       \E newCodeValue \in CodeValues :
          updateGroup(i, [groups[i].positions EXCEPT
                              ![p].codes = Append(@, newCodeValue)])
    /\ UNCHANGED <<mappingFile, besideMap>>

deleteCode ==
    /\ mappingFile = NoFile
    /\ \E i \in 1..Len(groups) : \E p \in 1..Len(groups[i].positions) :
       \E c \in 1..Len(groups[i].positions[p].codes) :
          updateGroup(i, [groups[i].positions EXCEPT ![p].codes = RemoveAt(@, c)])
    /\ UNCHANGED <<mappingFile, besideMap>>

\* the download of mapping_<family>.json
exportJSON ==
    /\ mappingFile = NoFile
    /\ mappingFile' = <<convertToMappingJSON(groups)>>
    /\ UNCHANGED <<groups, preview, besideMap>>

\* the file chosen is the one downloaded; it replaces the editor's state
importJSON ==
    /\ mappingFile # NoFile
    /\ SetGroups(convertFromMappingJSON(mappingFile[1]))
    /\ UNCHANGED <<mappingFile, besideMap>>

\* the file is put away, and the editing goes on
CloseFile ==
    /\ mappingFile # NoFile
    /\ mappingFile' = NoFile
    /\ UNCHANGED <<groups, preview, besideMap>>

NextM ==
    \/ addGroup
    \/ deleteGroup
    \/ addPosition
    \/ deletePosition
    \/ addCode
    \/ deleteCode
    \/ exportJSON
    \/ importJSON
    \/ CloseFile

SpecM == Init /\ [][NextM]_vars

(* ---------------------- the Electron main process ---------------------- *)
\* a BrowserWindow exists
HasWindow == mainWindow \in {"loading.html", FrontendPath(TRUE), FrontendPath(FALSE)}

\* backendProcess.kill() of will-quit and of the uncaughtException handler;
\* the process then closes
Killed(process) == IF process \in {"spawned", "serving"} THEN "closed" ELSE process

\* createWindow(): new BrowserWindow, loadFile(loading.html), show(), and the
\* 500 ms timer that loads the frontend
createWindow ==
    /\ mainWindow' = "loading.html"
    /\ timers' = (timers \ {"backend"}) \cup {"frontend"}

\* app.quit(): the windows close, will-quit kills the backend, the process
\* ends with its timers
appQuit ==
    /\ app' = "quit"
    /\ mainWindow' = IF HasWindow THEN "null" ELSE mainWindow
    /\ timers' = {}

\* app.whenReady().then: startBackend() spawns the backend and arms the
\* 8 s timer; the promise is pending
WhenReady ==
    /\ app = "launching"
    /\ app' = "starting"
    /\ \E p \in Platforms : platform' = p
    /\ \E dev \in BOOLEAN : isDev' = dev
    /\ backendProcess' = "spawned"
    /\ startup' = "pending"
    /\ timers' = {"backend"}
    /\ UNCHANGED <<mainWindow, dialogs, besideElectron>>

\* the backend has bound its port and serves requests
BackendServes ==
    /\ backendProcess = "spawned"
    /\ backendProcess' = "serving"
    /\ UNCHANGED <<app, platform, isDev, startup, mainWindow, timers, dialogs,
                   besideElectron>>

\* backendProcess.on('error'): the process could not be spawned; error box,
\* reject(error); a pending startup then shows its error box and quits
BackendError ==
    /\ backendProcess = "spawned"
    /\ backendProcess' = "failed"
    /\ IF startup = "pending"
       THEN /\ startup' = "rejected"
            /\ dialogs' = dialogs \cup {"Backend Fehler", "Startup Fehler"}
            /\ appQuit
       ELSE /\ dialogs' = dialogs \cup {"Backend Fehler"}
            /\ UNCHANGED <<app, startup, mainWindow, timers>>
    /\ UNCHANGED <<platform, isDev, besideElectron>>

\* backendProcess.on('close'): the backend ended; the handler writes a log line
BackendCloses ==
    /\ backendProcess \in {"spawned", "serving"}
    /\ backendProcess' = "closed"
    /\ UNCHANGED <<app, platform, isDev, startup, mainWindow, timers, dialogs,
                   besideElectron>>

\* the 8 s timer of startBackend: resolve(); the await returns and
\* createWindow() runs
BackendTimer ==
    /\ "backend" \in timers
    /\ IF startup = "pending"
       THEN /\ startup' = "resolved"
            /\ app' = "running"
            /\ createWindow
       ELSE /\ timers' = timers \ {"backend"}
            /\ UNCHANGED <<app, startup, mainWindow>>
    /\ UNCHANGED <<platform, isDev, backendProcess, dialogs, besideElectron>>

\* the 500 ms timer of createWindow: mainWindow.loadURL / loadFile of the
\* frontend; with the window closed the call throws and the
\* uncaughtException handler kills the backend
FrontendTimer ==
    /\ "frontend" \in timers
    /\ timers' = timers \ {"frontend"}
    /\ IF HasWindow
       THEN mainWindow' = FrontendPath(isDev) /\ UNCHANGED backendProcess
       ELSE backendProcess' = Killed(backendProcess) /\ UNCHANGED mainWindow
    /\ UNCHANGED <<app, platform, isDev, startup, dialogs, besideElectron>>

\* mainWindow.on('closed'), then window-all-closed: quit unless on macOS
WindowClosed ==
    /\ HasWindow
    /\ IF platform # "darwin"
       THEN appQuit /\ backendProcess' = Killed(backendProcess)
       ELSE mainWindow' = "null" /\ UNCHANGED <<app, backendProcess, timers>>
    /\ UNCHANGED <<platform, isDev, startup, dialogs, besideElectron>>

\* app.on('activate'), macOS: a window is created when there is none
Activate ==
    /\ app = "running"
    /\ platform = "darwin"
    /\ ~ HasWindow
    /\ createWindow
    /\ UNCHANGED <<app, platform, isDev, backendProcess, startup, dialogs,
                   besideElectron>>

\* the user quits the application: will-quit kills the backend
Quit ==
    /\ app \in {"starting", "running"}
    /\ appQuit
    /\ backendProcess' = Killed(backendProcess)
    /\ UNCHANGED <<platform, isDev, startup, dialogs, besideElectron>>

NextE ==
    \/ WhenReady
    \/ BackendServes
    \/ BackendError
    \/ BackendCloses
    \/ BackendTimer
    \/ FrontendTimer
    \/ WindowClosed
    \/ Activate
    \/ Quit

SpecE == Init /\ [][NextE]_vars

(* --------------------------- CodeHints component ----------------------- *)
\* requests in flight
InFlight == {pair \in Requestable : requests[pair] > 0}

RECURSIVE CountAll(_, _)
CountAll(counts, pairs) ==
    IF pairs = {} THEN 0
    ELSE LET pair == CHOOSE one \in pairs : TRUE
         IN  counts[pair] + CountAll(counts, pairs \ {pair})

\* the parent renders CodeHints with another nodeId or partialCode: the
\* cleanup of the last effect clears its timer, then the effect runs: no
\* hints for an absent nodeId or partialCode, else the 150 ms debounce timer
ChangeProps ==
    /\ \E pair \in NodeIds \X PartialCodes :
          /\ pair # props
          /\ props' = pair
          /\ IF pair \in Requestable
             THEN timeoutId' = pair /\ UNCHANGED hints
             ELSE timeoutId' = NoRequest /\ hints' = NoRequest
    /\ UNCHANGED <<requests, hintsLoading, error, besideHints>>

\* the debounce timer fires: fetchHints() sets loading, clears the error and
\* sends GET /api/code-hints/{nodeId}/{partialCode}
FetchHints ==
    /\ timeoutId # NoRequest
    /\ CountAll(requests, Requestable) < MaxFetches
    /\ requests' = [requests EXCEPT ![timeoutId] = @ + 1]
    /\ timeoutId' = NoRequest
    /\ hintsLoading' = TRUE
    /\ error' = FALSE
    /\ UNCHANGED <<props, hints, besideHints>>

\* a request is answered: setHints(data.hints) or, not ok, setError and
\* setHints([]); finally setLoading(false).  The hints returned for a pair
\* are named by the pair.
HintsResponse ==
    /\ \E pair \in InFlight : \E ok \in BOOLEAN :
          /\ requests' = [requests EXCEPT ![pair] = @ - 1]
          /\ IF ok THEN hints' = pair /\ UNCHANGED error
             ELSE hints' = NoRequest /\ error' = TRUE
    /\ hintsLoading' = FALSE
    /\ UNCHANGED <<props, timeoutId, besideHints>>

NextH == ChangeProps \/ FetchHints \/ HintsResponse

SpecH == Init /\ [][NextH]_vars

(* ---------------- notions the properties are stated with ---------------- *)
\* a grouping node (pattern container): pattern set, no code
IsGrouping(ns, n) == ns[n].pattern # NoPattern /\ ns[n].code = NoCode

\* product families: rows with parent_id IS NULL
Families == {n \in Ids : nodes[n].parent_id = NoParent}

\* selection level by structure: code nodes on the path below the family
\* root, the node itself included; pattern containers are not counted
LevelOf(ns, n) ==
    Cardinality({a \in AncestorsOf(ns, n) \cup {n} :
                    ns[a].code # NoCode /\ ns[a].parent_id # NoParent})

\* selectable nodes of family f at a selection level
NodesAtLevel(ns, f, level) ==
    {n \in SubtreeOf(ns, f) : ns[n].code # NoCode /\ LevelOf(ns, n) = level}

\* closure lookup: is there a node_paths row (a, d)
IsReachable(paths, a, d) ==
    \E np \in paths : np.ancestor_id = a /\ np.descendant_id = d

\* closure rows of proper ancestors of n, as <<ancestor, depth>>
ClosureAncestors(paths, n) ==
    {<<np.ancestor_id, np.depth>> :
        np \in {r \in paths : r.descendant_id = n /\ r.depth >= 1}}

\* ids returned by the query at the caller
ReturnedIds == {r.id : r \in q.rows}

\* is_compatible of the row returned for node c
Flag(c) == \E r \in q.rows : r.id = c /\ r.is_compatible

\* the selections of the call, located in the store
Located == selection_ids(nodes, q.selections)
Before == {s \in Located : s.level < q.target}
After == {s \in Located : s.level > q.target}

\* every selection is at a selection level (1 or deeper: the family is not a
\* selection), names exactly one node, and no two claim the same level
WellFormedSelections ==
    /\ \A cs \in q.selections : cs.level >= 1
    /\ \A cs \in q.selections :
          Cardinality({s \in Located : s.level = cs.level}) = 1
    /\ \A cs, ct \in q.selections : cs.level = ct.level => cs = ct

\* consecutive selections of S (ordered by level) are ancestor-to-descendant
ChainConnected(S) ==
    \A s, t \in S :
        (s.level < t.level /\ ~ \E u \in S : s.level < u.level /\ u.level < t.level)
            => IsReachable(node_paths, s.id, t.id)

LowestOf(S) == CHOOSE s \in S : \A t \in S : s.level <= t.level
HighestOf(S) == CHOOSE s \in S : \A t \in S : t.level <= s.level

(* ------------------------------ properties ------------------------------ *)
\* C1: for every node N, the ancestors met walking parent links from N up to
\* its family root, with their distances, are exactly the ancestors the
\* closure table holds for N.
C1_ClosureCompleteness ==
    \A n \in Ids : WalkUp(nodes, n, 0) = ClosureAncestors(node_paths, n)

\* C2: every stored node, family roots included, has its reflexive closure
\* row (id, id, 0).
C2_ReflexiveEntry ==
    \A n \in Ids :
        [ancestor_id |-> n, descendant_id |-> n, depth |-> 0] \in node_paths

\* C3: after a delete of node N, no closure row has N or a former descendant
\* of N as its ancestor or as its descendant.
C3_DeletionSymmetry ==
    \A np \in node_paths :
        np.ancestor_id \notin lastDeleted /\ np.descendant_id \notin lastDeleted

\* a subtree of at least two nodes was deleted, closure rows remain for others
C3_Witness ==
    /\ Cardinality(lastDeleted) >= 2
    /\ node_paths # {}

\* codes of the level-3 nodes of family f below node b
Level3CodesBelow(f, b) ==
    {nodes[m].code : m \in SubtreeOf(nodes, b) \cap NodesAtLevel(nodes, f, 3)}

\* the level-1 branches of family f lead to disjoint level-3 subtrees
DisjointLevel3(f) ==
    \A b1, b2 \in NodesAtLevel(nodes, f, 1) :
        b1 # b2 => Level3CodesBelow(f, b1) \cap Level3CodesBelow(f, b2) = {}

\* C4: gap query: resolving level 2 with the single selection {level 3, X}
\* flags as compatible exactly the level-2 nodes whose subtree contains X.
C4_GapConsistency ==
    \A f \in Families, x \in Codes :
        (/\ q.kind = "query4"
         /\ q.target = 2
         /\ q.selections = {[code |-> x, level |-> 3]}
         /\ Cardinality(NodesAtLevel(nodes, f, 1)) >= 2
         /\ DisjointLevel3(f))
        => \A c \in NodesAtLevel(nodes, f, 2) :
              /\ c \in ReturnedIds
              /\ Flag(c) <=> \E m \in SubtreeOf(nodes, c) :
                                 nodes[m].code = x /\ LevelOf(nodes, m) = 3

\* C5: a candidate passes the forward check iff the selections below the
\* target level are connected pairwise in level order and the last of them
\* reaches the candidate; when they are not connected, every candidate is
\* returned incompatible.
C5_ForwardCheck ==
    (q.kind = "query4" /\ q.target >= 1 /\ WellFormedSelections /\ Before # {})
    => /\ \A c \in candidates(nodes, q.target) :
             c \in q.forward <=>
                 /\ ChainConnected(Before)
                 /\ IsReachable(node_paths, HighestOf(Before).id, c)
       /\ ~ ChainConnected(Before) => \A r \in q.rows : ~ r.is_compatible

\* C6: a candidate passes the backward check iff it reaches the first of the
\* selections above the target level and those are connected pairwise in
\* level order; selections below the target level play no part.
C6_BackwardCheck ==
    (q.kind = "query4" /\ q.target >= 1 /\ WellFormedSelections)
    => \A c \in candidates(nodes, q.target) :
          c \in q.backward <=>
              \/ After = {}
              \/ /\ IsReachable(node_paths, c, LowestOf(After).id)
                 /\ ChainConnected(After)

\* C7: with no selections, resolving level 1 returns every level-1 node of a
\* family, each with is_compatible = true.
C7_TrivialLevel ==
    (q.kind = "simplified" /\ q.target = 1)
    => /\ \A f \in Families : \A n \in NodesAtLevel(nodes, f, 1) : Flag(n)
       /\ \A r \in q.rows : r.is_compatible

\* level 1 was resolved with no selections in a store with two level-1 nodes
C7_Witness ==
    /\ q.kind = "simplified"
    /\ q.target = 1
    /\ Cardinality(q.rows) >= 2

\* C8: the rows returned are exactly the selectable nodes at the target
\* level inside the family's tree, none of another family's.
C8_CandidateEnumeration ==
    (q.kind # "none" /\ q.target >= 1)
    => \A f \in Families : ReturnedIds = NodesAtLevel(nodes, f, q.target)

\* C9: when every selection names a stored node, a selection at the target
\* level itself leaves every candidate's flag as it is without that selection.
C9_TargetLevelSelectionIgnored ==
    (/\ q.kind = "query4"
     /\ q.target >= 1
     /\ \A cs \in q.selections : selection_ids(nodes, {cs}) # {})
    => \A s \in q.selections :
          s.level = q.target
          => \A r \in ResolveResults(nodes, node_paths, q.target,
                                     q.selections \ {s}) : r.rows = q.rows

\* C10: a call in which two selections (each naming a stored node) claim the
\* same level fails with InvalidSelectionError and returns no rows.
C10_TieRejected ==
    (/\ q.kind # "none"
     /\ \E s, t \in q.selections :
           /\ s # t /\ s.level = t.level /\ s.level >= 1
           /\ selection_ids(nodes, {s}) # {}
           /\ selection_ids(nodes, {t}) # {})
    => (q.kind = "InvalidSelectionError" /\ q.rows = {})

\* C11: a call in which some selection names no stored node (no node with
\* that code at that level) fails with InvalidSelectionError and returns no
\* rows; the selection is never silently dropped.
C11_UnknownSelectionRejected ==
    (/\ q.kind # "none"
     /\ \E s \in q.selections : selection_ids(nodes, {s}) = {})
    => (q.kind = "InvalidSelectionError" /\ q.rows = {})

\* C12: no grouping node is ever among the rows a query returns, with or
\* without selections.
C12_NoGroupingCandidate ==
    \A r \in q.rows : r.id \in Ids /\ ~ IsGrouping(nodes, r.id)

\* a Query 4 call that returned rows for a level at which the store also
\* holds a pattern container
C12_Witness ==
    /\ q.kind = "query4"
    /\ q.rows # {}
    /\ \E n \in Ids : IsGrouping(nodes, n) /\ nodes[n].level = q.target

\* C13: whatever a reader reads while writers insert and delete, every node
\* it sees has its closure entries (its own entry of depth 0 and one per
\* ancestor), and every closure entry it sees joins two nodes it sees.
C13_ReaderSeesWholeWrites ==
    snap.kind = "read"
    => /\ \A n \in DOMAIN snap.nodes :
             \A w \in WalkUp(snap.nodes, n, 0) \cup {<<n, 0>>} :
                 [ancestor_id |-> w[1], descendant_id |-> n, depth |-> w[2]]
                     \in snap.node_paths
       /\ \A np \in snap.node_paths :
             {np.ancestor_id, np.descendant_id} \subseteq DOMAIN snap.nodes

\* C14: every stored node with a parent has exactly one of code and pattern;
\* an insert of a non-root row with both or with neither is rejected and
\* leaves both tables as they were (no step of the store writes such a row).
C14_CodeXorPattern ==
    \A n \in Ids :
        nodes[n].parent_id # NoParent
        => (nodes[n].code # NoCode) # (nodes[n].pattern # NoPattern)

\* a code node and a pattern container stored below a root, the inserts of
\* rows with both and with neither having been offered at every step
C14_Witness ==
    \E n, m \in Ids :
        /\ nodes[n].parent_id # NoParent /\ nodes[n].code # NoCode
        /\ nodes[m].parent_id # NoParent /\ nodes[m].pattern # NoPattern

\* C15: position never decreases from a node to its children, so it is
\* non-decreasing along every path from a root; an insert of a row whose
\* position is smaller than its parent's is refused and stores nothing.
C15_PositionMonotonic ==
    \A n \in DOMAIN cols :
        (n \in Ids /\ nodes[n].parent_id \in DOMAIN cols)
        => cols[nodes[n].parent_id].position <= cols[n].position

\* rows whose parent_id names no stored row (Find Orphaned Nodes)
OrphanedNodes(ns) ==
    {n \in DOMAIN ns :
        ns[n].parent_id # NoParent /\ ns[n].parent_id \notin DOMAIN ns}

\* C16: a delete removes the node and every node below it, leaves no row
\* whose parent is gone, and leaves every row outside that subtree as it was.
C16_DeleteRemovesSubtree ==
    [][(Ids' # Ids /\ seq' = seq)
       => /\ \E n \in Ids : Ids' = Ids \ SubtreeOf(nodes, n)
          /\ OrphanedNodes(nodes') = {}
          /\ \A m \in Ids' : nodes'[m] = nodes[m]]_vars

\* after a delete that took a node with its children, rows of another
\* branch with parents of their own are still stored
C16_Witness ==
    /\ Cardinality(lastDeleted) >= 2
    /\ \E m \in Ids : nodes[m].parent_id # NoParent

\* number of selection levels below n: the deepest code node under n,
\* counted in code nodes passed on the way down
LevelsBelow(ns, n) ==
    LET below == {LevelOf(ns, m) - LevelOf(ns, n) :
                     m \in {x \in SubtreeOf(ns, n) : ns[x].code # NoCode}}
    IN  CHOOSE d \in below \cup {0} : \A e \in below : e <= d

\* C17: the max-depth query on a node returns the number of selection
\* levels below it, pattern containers not counted (for a code that names
\* one stored node, in a store whose pattern containers all hold options).
C17_MaxDepthCountsLevels ==
    (/\ depth3.kind = "query3"
     /\ \A c \in Ids : IsGrouping(nodes, c)
                         => \E m \in Ids : nodes[m].parent_id = c)
    => \A n \in Ids :
          ({m \in Ids : nodes[m].code = depth3.start_code} = {n})
          => depth3.max_depth = LevelsBelow(nodes, n)

C19_IntermediateFlag ==
    \A n \in DOMAIN cols :
        n \in Ids
        => (cols[n].is_intermediate_code
              <=> (/\ cols[n].full_typecode # NoTypecode
                   /\ \E m \in Ids : nodes[m].parent_id = n))

\* selection paths of family f that assemble to string s
PathsAssembling(f, s) ==
    {p \in SelectionPaths(nodes, f) : assemble(nodes, p) = s}

\* no two options below the same node carry the same code
DistinctSiblingCodes ==
    \A n \in Ids : \A c, d \in OptionsBelow(nodes, n) :
        nodes[c].code = nodes[d].code => c = d

\* C20 as stated: decoding the string assembled from a complete selection
\* path returns that very path, with isComplete = true (in a store whose
\* sibling options have distinct codes).
C20_RoundTrip ==
    (tc.kind # "none" /\ DistinctSiblingCodes)
    => (tc.kind = "decoded" /\ tc.decoded = tc.path /\ tc.isComplete)

\* C20 amended: decoding the string assembled from a complete selection path
\* returns a selection path of the same family that assembles to the same
\* string; it is the path itself, with isComplete = true, whenever no other
\* selection path of the family assembles to that string.
C20_RoundTripUpToString ==
    tc.kind # "none"
    => /\ tc.kind = "decoded"
       /\ tc.decoded \in PathsAssembling(tc.family, tc.string)
       /\ PathsAssembling(tc.family, tc.string) = {tc.path}
             => (tc.decoded = tc.path /\ tc.isComplete)

\* a path of three selections came back from the decoder although a longer
\* sibling code stood at one of the offsets and had to be given up
C20_Witness ==
    /\ tc.kind = "decoded"
    /\ Len(tc.path) >= 3
    /\ tc.decoded = tc.path
    /\ tc.isComplete
    /\ PathsAssembling(tc.family, tc.string) = {tc.path}
    /\ \E i \in 1..(Len(tc.path) - 1) :
          \E c \in OptionsBelow(nodes, tc.path[i]) :
             Len(Chars(nodes[c].code)) > Len(Chars(nodes[tc.path[i + 1]].code))

\* C21: a protected route shows its children only when the auth check has
\* finished, a user is logged in and, on an admin-only route, that user is an
\* admin; once the check has finished, a visitor without user is sent to
\* /login and a logged-in non-admin on an admin-only route gets the 403 page.
C21_ProtectedRoute ==
    (pathname \in Paths \ {"/login"})
    => /\ Rendered = "children"
          => /\ ~ loading
             /\ user # NoUser
             /\ RequireAdmin(pathname) => user = "admin"
       /\ (~ loading /\ user = NoUser) => Rendered = "Navigate /login"
       /\ (~ loading /\ user # NoUser /\ RequireAdmin(pathname)
           /\ user # "admin") => Rendered = "403"

\* a logged-in user without the admin role stands on the admin-only route
C21_Witness ==
    /\ pathname = "/admin"
    /\ user = "user"
    /\ ~ loading
    /\ Rendered = "403"

\* the group of the list that the k-th segment of a combination comes from:
\* every group with positions contributes one segment for each position
OwnerOf(gs, k) ==
    LET kept == WithPositions(gs)
    IN  CHOOSE i \in 1..Len(kept) :
            /\ Sum([j \in 1..(i - 1) |-> Len(kept[j].positions)]) < k
            /\ k <= Sum([j \in 1..i |-> Len(kept[j].positions)])

\* total length of the codes a combination chose before its k-th segment at
\* positions of the k-th segment's group
LengthBefore(gs, combination, k) ==
    Sum([j \in 1..(k - 1) |->
            IF OwnerOf(gs, j) = OwnerOf(gs, k) THEN Len(combination[j].code)
            ELSE 0])

Entries(mappings) == {mappings[k] : k \in 1..Len(mappings)}

\* two mapping.json files agree in group_position, in pattern and in the
\* group_mappings (group, position, end_position and codes of every entry)
SameMapping(a, b) ==
    /\ a.group_position = b.group_position
    /\ a.pattern = b.pattern
    /\ Entries(a.group_mappings) = Entries(b.group_mappings)

\* C28: importing a mapping.json the tool exported and exporting again with
\* no edit in between yields the same group_position, the same pattern and
\* the same group_mappings as the file imported.
C28_ImportExportLossless ==
    [][importJSON => SameMapping(convertToMappingJSON(groups'), mappingFile[1])]_vars

\* C29: the groups of the editor state have pairwise distinct groupNumber
\* values after any sequence of addGroup and deleteGroup operations.
C29_DistinctGroupNumbers ==
    \A i, j \in 1..Len(groups) :
        i # j => groups[i].groupNumber # groups[j].groupNumber

\* C23: the depth of every closure entry (ancestor, descendant, depth) is
\* the number of parent links from the descendant up to the ancestor, the
\* links into and out of pattern containers counted, after any inserts and
\* deletes.
C23_DepthCountsHops ==
    \A np \in node_paths :
        /\ np.descendant_id \in Ids
        /\ IF np.depth = 0 THEN np.ancestor_id = np.descendant_id
           ELSE <<np.ancestor_id, np.depth>> \in WalkUp(nodes, np.descendant_id, 0)

\* an entry of depth 2 whose path runs through a pattern container
C23_Witness ==
    \E np \in node_paths :
        /\ np.depth = 2
        /\ np.descendant_id \in Ids
        /\ nodes[np.descendant_id].parent_id \in Ids
        /\ IsGrouping(nodes, nodes[np.descendant_id].parent_id)
        /\ nodes[nodes[np.descendant_id].parent_id].parent_id = np.ancestor_id

\* C24: no stored node, family root or not, has both code and pattern set
\* (a root may have neither).
C24_NeverCodeAndPattern ==
    \A n \in Ids : ~ (nodes[n].code # NoCode /\ nodes[n].pattern # NoPattern)

\* C25: for any start code the closure-table query (Option B) returns what
\* the recursive query (Option A) returns on the same store, also when the
\* code is carried by more than one node.
C25_OptionsAgree ==
    depth3.kind = "query3b"
    => depth3.max_depth = MaxDepth(nodes, depth3.start_code)

\* a call made by a page is answered 401
Api401 ==
    \E c \in calls : c.op = "api" /\ ~ Ok(c.token) /\ calls' = calls \ {c}

\* C26: whenever a call of the API client is answered 401 the user is logged
\* out: the stored token is removed, the user of the AuthContext is null and
\* the application is at /login or on its way there.
C26_LogoutOn401 ==
    [][Api401 => /\ auth_token' = NoToken
                 /\ user' = NoUser
                 /\ (pathname' = "/login" \/ Rendered' = "Navigate /login")]_vars

\* C27: on startup the promise of startBackend resolves, and the main window
\* is created and shown, only with the backend serving requests: not while
\* it is still starting, not after it failed to start or has exited.
C27_WindowOnlyWhenReady ==
    [][/\ (startup = "pending" /\ startup' = "resolved")
            => backendProcess = "serving"
       /\ (app = "starting" /\ ~ HasWindow /\ HasWindow')
            => backendProcess = "serving"]_vars

\* the input has stopped changing and nothing is outstanding: no debounce
\* timer pending, no request in flight
Quiescent == timeoutId = NoRequest /\ InFlight = {}

\* C30: once the input has stopped changing and every outstanding request
\* has completed, the hints CodeHints holds are those returned for the most
\* recent (nodeId, partialCode) pair (none if that request failed, none for
\* an absent nodeId or partialCode): no answer to an earlier request has
\* overwritten them.
C30_LatestHints ==
    Quiescent
    => IF props \in Requestable
       THEN hints = props \/ (hints = NoRequest /\ error)
       ELSE hints = NoRequest
====
